---- MODULE Spec2Model ----
(***************************************************************************)
(* Model of server.js: an Express application serving CRUD over one       *)
(* in-memory array of products.                                            *)
(*                                                                         *)
(* A request is received (body-parser has parsed its body), then handled  *)
(* in one step, then its response is flushed.  The handling step is the    *)
(* route's whole chain (requireApiKey, validateProduct, the async handler, *)
(* the error handler): it contains no await, so on the single JavaScript   *)
(* thread it runs to the response without yielding to another request.    *)
(* Concurrent requests therefore touch `products` only as whole handling   *)
(* steps, in some order; the model serves them in that order, one at a     *)
(* time.                                                                   *)
(*                                                                         *)
(* JavaScript values are records [t, s, n, b]: t is the tag, s a string,   *)
(* n the value of a finite number, b a boolean.  The state holds strings   *)
(* as TLA+ strings; Chars gives the characters of each, a sequence of      *)
(* one-character strings, and toLowerCase, trim, includes and parseInt     *)
(* are computed on those characters.  Error messages are only joined and   *)
(* compared.                                                               *)
(***************************************************************************)
EXTENDS Integers, Sequences, FiniteSets, TLC

VARIABLES
    products,     \* the in-memory array `products`
    issued,       \* number of ids uuidv4() has handed out so far
    pc,           \* "idle", "received" (body parsed, routing not started)
                  \* or "responded" (the response is written)
    req,          \* the request being served
    err,          \* the error passed to next(err) for that request, if any
    resp,         \* the response to that request
    everIds,      \* history: every id that has ever been in the collection
    deleted,      \* history: ids removed by a successful DELETE
    created,      \* history: the records of the 201 responses on whose id no
                  \* PUT or DELETE has succeeded since
    before        \* history: products and everIds as they were when the
                  \* handling of req started

vars == <<products, issued, pc, req, err, resp, everIds, deleted, created,
          before>>

----------------------------------------------------------------------------
(* Bounds *)

\* Number of products that may be created in one run.
MaxCreated == 2

----------------------------------------------------------------------------
(* JavaScript values *)

Undefined == [t |-> "undefined", s |-> "",   n |-> 0, b |-> FALSE]
Str(s)    == [t |-> "string",    s |-> s,    n |-> 0, b |-> FALSE]
Num(n)    == [t |-> "number",    s |-> "",   n |-> n, b |-> FALSE]
Infinity  == [t |-> "infinity",  s |-> "",   n |-> 0, b |-> FALSE]
NaN       == [t |-> "nan",       s |-> "",   n |-> 0, b |-> FALSE]
Bool(b)   == [t |-> "boolean",   s |-> "",   n |-> 0, b |-> b]

\* typeof v
Typeof(v) == IF v.t \in {"number", "infinity", "nan"} THEN "number" ELSE v.t

\* Number.isNaN(v)
NumberIsNaN(v) == v.t = "nan"

\* ToBoolean(v): what `!v`, `v || d` and `if (v)` test
Truthy(v) ==
    CASE v.t = "undefined" -> FALSE
      [] v.t = "string"    -> v.s # ""
      [] v.t = "number"    -> v.n # 0
      [] v.t = "infinity"  -> TRUE
      [] v.t = "nan"       -> FALSE
      [] v.t = "boolean"   -> v.b

----------------------------------------------------------------------------
(* Strings *)

\* The characters of every string that occurs in a run
Text ==
       ("" :>
        <<>>)
    @@ ("Laptop" :>
        <<"L","a","p","t","o","p">>)
    @@ ("High-performance laptop with 16GB RAM" :>
        <<"H","i","g","h","-","p","e","r","f","o","r","m","a","n","c","e",
          " ","l","a","p","t","o","p"," ","w","i","t","h"," ","1","6","G",
          "B"," ","R","A","M">>)
    @@ ("electronics" :>
        <<"e","l","e","c","t","r","o","n","i","c","s">>)
    @@ ("Smartphone" :>
        <<"S","m","a","r","t","p","h","o","n","e">>)
    @@ ("Latest model with 128GB storage" :>
        <<"L","a","t","e","s","t"," ","m","o","d","e","l"," ","w","i","t",
          "h"," ","1","2","8","G","B"," ","s","t","o","r","a","g","e">>)
    @@ ("Coffee Maker" :>
        <<"C","o","f","f","e","e"," ","M","a","k","e","r">>)
    @@ ("Programmable coffee maker with timer" :>
        <<"P","r","o","g","r","a","m","m","a","b","l","e"," ","c","o","f",
          "f","e","e"," ","m","a","k","e","r"," ","w","i","t","h"," ","t",
          "i","m","e","r">>)
    @@ ("kitchen" :>
        <<"k","i","t","c","h","e","n">>)
    @@ ("secret-key" :>
        <<"s","e","c","r","e","t","-","k","e","y">>)
    @@ ("wrong" :>
        <<"w","r","o","n","g">>)
    @@ ("Mug" :>
        <<"M","u","g">>)
    @@ ("Cup" :>
        <<"C","u","p">>)
    @@ ("Jar" :>
        <<"J","a","r">>)
    @@ ("Cups" :>
        <<"C","u","p","s">>)
    @@ ("Kitchen" :>
        <<"K","i","t","c","h","e","n">>)
    @@ ("Coffee cup" :>
        <<"C","o","f","f","e","e"," ","c","u","p">>)
    @@ ("abc" :>
        <<"a","b","c">>)
    @@ ("ELECTRONICS" :>
        <<"E","L","E","C","T","R","O","N","I","C","S">>)
    @@ ("coffee" :>
        <<"c","o","f","f","e","e">>)
    @@ ("MUG" :>
        <<"M","U","G">>)
    @@ ("0" :>
        <<"0">>)
    @@ ("1" :>
        <<"1">>)
    @@ ("2" :>
        <<"2">>)
    @@ ("-1" :>
        <<"-","1">>)
    @@ ("-2" :>
        <<"-","2">>)
    @@ (" " :>
        <<" ">>)

Chars(s) == Text[s]

UpperCase == <<"A","B","C","D","E","F","G","H","I","J","K","L","M",
               "N","O","P","Q","R","S","T","U","V","W","X","Y","Z">>
LowerCase == <<"a","b","c","d","e","f","g","h","i","j","k","l","m",
               "n","o","p","q","r","s","t","u","v","w","x","y","z">>
Digits    == <<"0","1","2","3","4","5","6","7","8","9">>
WhiteSpace == {" "}

LowerChar(c) ==
    IF \E k \in DOMAIN UpperCase : UpperCase[k] = c
    THEN LowerCase[CHOOSE k \in DOMAIN UpperCase : UpperCase[k] = c]
    ELSE c

\* String.prototype.toLowerCase
ToLowerCase(s) == [i \in DOMAIN s |-> LowerChar(s[i])]

\* String.prototype.includes
Includes(s, term) ==
    \E i \in 0..(Len(s) - Len(term)) : SubSeq(s, i + 1, i + Len(term)) = term

\* String.prototype.trim
Trim(s) ==
    LET inner == {i \in DOMAIN s : s[i] \notin WhiteSpace}
    IN  IF inner = {} THEN <<>>
        ELSE LET lo == CHOOSE i \in inner : \A j \in inner : i <= j
                 hi == CHOOSE i \in inner : \A j \in inner : j <= i
             IN  SubSeq(s, lo, hi)

IsDigit(c)  == \E k \in DOMAIN Digits : Digits[k] = c
DigitVal(c) == (CHOOSE k \in DOMAIN Digits : Digits[k] = c) - 1

RECURSIVE DigitsValue(_, _)
\* value of the longest prefix of decimal digits of s, continuing from acc
DigitsValue(s, acc) ==
    IF s = <<>> \/ ~IsDigit(Head(s)) THEN acc
    ELSE DigitsValue(Tail(s), 10 * acc + DigitVal(Head(s)))

RECURSIVE SkipWhiteSpace(_)
SkipWhiteSpace(s) ==
    IF s # <<>> /\ Head(s) \in WhiteSpace THEN SkipWhiteSpace(Tail(s)) ELSE s

\* parseInt(v, 10) of a string or of a finite integer number: leading white
\* space is skipped, a sign is optional, the longest prefix of digits is read;
\* the result is NaN when there is no digit.
ParseInt(v) ==
    IF v.t = "number" THEN Num(v.n)
    ELSE IF v.t # "string" THEN NaN
    ELSE LET s0   == SkipWhiteSpace(Chars(v.s))
             neg  == s0 # <<>> /\ Head(s0) = "-"
             sgn  == s0 # <<>> /\ Head(s0) \in {"-", "+"}
             body == IF sgn THEN Tail(s0) ELSE s0
         IN  IF body = <<>> \/ ~IsDigit(Head(body)) THEN NaN
             ELSE Num((IF neg THEN -1 ELSE 1) * DigitsValue(body, 0))

\* Math.max(a, b) on integers
MathMax(a, b) == IF a >= b THEN a ELSE b

\* Array.prototype.slice(start, end) for 0 <= start <= end: both are clipped
\* to the length of the array
Slice(seq, start, end) ==
    LET lo == IF start <= Len(seq) THEN start ELSE Len(seq)
        hi == IF end <= Len(seq) THEN end ELSE Len(seq)
    IN  SubSeq(seq, lo + 1, hi)

\* Array.prototype.join on an array of messages
RECURSIVE Join(_, _)
Join(msgs, sep) ==
    IF msgs = <<>> THEN ""
    ELSE IF Len(msgs) = 1 THEN msgs[1]
    ELSE msgs[1] \o sep \o Join(Tail(msgs), sep)

----------------------------------------------------------------------------
(* Errors *)

NoError == [raised |-> FALSE, statusCode |-> 0, isOperational |-> FALSE,
            message |-> ""]

\* new AppError(message, statusCode)
AppError(message, statusCode) ==
    [raised |-> TRUE, statusCode |-> statusCode, isOperational |-> TRUE,
     message |-> message]

\* new NotFoundError(message)
NotFoundError(message) == AppError(message, 404)

\* new ValidationError(message)
ValidationError(message) == AppError(message, 400)

\* A TypeError thrown by the runtime: it has a message, and neither a
\* statusCode (0 stands for the missing property) nor isOperational.
TypeError(message) ==
    [raised |-> TRUE, statusCode |-> 0, isOperational |-> FALSE,
     message |-> message]

----------------------------------------------------------------------------
(* The collection *)

Product(id, name, description, price, category, inStock) ==
    [id |-> id, name |-> name, description |-> description, price |-> price,
     category |-> category, inStock |-> inStock]

SeedProducts == <<
    Product("1", Str("Laptop"), Str("High-performance laptop with 16GB RAM"),
            Num(1200), Str("electronics"), Bool(TRUE)),
    Product("2", Str("Smartphone"), Str("Latest model with 128GB storage"),
            Num(800), Str("electronics"), Bool(TRUE)),
    Product("3", Str("Coffee Maker"),
            Str("Programmable coffee maker with timer"),
            Num(50), Str("kitchen"), Bool(FALSE)) >>

\* The ids uuidv4() returns, in the order it returns them: the library's
\* contract is that every call yields an id it has not yielded before (and
\* none of them is "1", "2", "3" or "stats": they are 36 characters long).
UuidPool == <<"uuid-a", "uuid-b", "uuid-c", "uuid-d">>

\* Mutant of Uuidv4: id: String(products.length + 1)
IdFromLength == <<"1", "2", "3", "4", "5", "6", "7", "8">>[Len(products) + 1]

\* uuidv4()
Uuidv4 == UuidPool[issued + 1]

Ids(seq) == {seq[i].id : i \in DOMAIN seq}

\* Mutant of FindIndex: the predicate holds of every record
FindIndexFirst(seq, id) == IF seq = <<>> THEN -1 ELSE 0

\* products.findIndex(p => p.id === id): 0-based, -1 when there is none
FindIndex(seq, id) ==
    LET hits == {i \in DOMAIN seq : seq[i].id = id}
    IN  IF hits = {} THEN -1
        ELSE (CHOOSE i \in hits : \A j \in hits : i <= j) - 1

----------------------------------------------------------------------------
(* Requests and responses *)

EmptyBody == [name |-> Undefined, description |-> Undefined,
              price |-> Undefined, category |-> Undefined,
              inStock |-> Undefined]

EmptyQuery == [category |-> Undefined, q |-> Undefined, page |-> Undefined,
               limit |-> Undefined]

RootPath       == [kind |-> "root", seg |-> ""]
CollectionPath == [kind |-> "collection", seg |-> ""]
ItemPath(seg)  == [kind |-> "item", seg |-> seg]

Request(method, path, key, body, query) ==
    [method |-> method, path |-> path, key |-> key, body |-> body,
     query |-> query]

NoRequest == Request("", RootPath, Undefined, EmptyBody, EmptyQuery)

NoResponse ==
    [code |-> 0, kind |-> "none", status |-> "", message |-> "",
     results |-> 0, page |-> 0, total |-> 0, products |-> <<>>,
     counts |-> <<>>]

\* res.status(code).json({ status: 'success', data: { product } })
ProductResponse(code, product) ==
    [NoResponse EXCEPT !.code = code, !.kind = "product",
                       !.status = "success", !.products = <<product>>]

----------------------------------------------------------------------------
(* Middleware *)

\* process.env.API_KEY: not set
ApiKeyEnv == Undefined

SecretKey == "secret-key"

\* Mutant of RequireApiKey: only a missing key is refused
RequireApiKeyPresent(r) ==
    IF ~Truthy(r.key) THEN AppError("Invalid or missing API key", 401)
    ELSE NoError

\* requireApiKey
RequireApiKey(r) ==
    LET key      == r.key
        expected == IF Truthy(ApiKeyEnv) THEN ApiKeyEnv ELSE Str(SecretKey)
    IN  IF ~Truthy(key) \/ key # expected
        THEN AppError("Invalid or missing API key", 401)
        ELSE NoError

\* errors.push(message) when the test holds
PushIf(test, message) == IF test THEN <<message>> ELSE <<>>

\* validateProduct
ValidateProduct(r) ==
    LET name     == r.body.name
        price    == r.body.price
        category == r.body.category
        inStock  == r.body.inStock
        errors   ==
            PushIf(Typeof(name) # "string" \/ Trim(Chars(name.s)) = <<>>,
                   "name (string) is required")
            \o PushIf(Typeof(price) # "number" \/ NumberIsNaN(price),
                      "price (number) is required")
            \o PushIf(Typeof(category) # "string"
                          \/ Trim(Chars(category.s)) = <<>>,
                      "category (string) is required")
            \o PushIf(Typeof(inStock) # "boolean",
                      "inStock (boolean) is required")
    IN  IF Len(errors) # 0 THEN ValidationError(Join(errors, "; "))
        ELSE NoError

Middleware(name, r) ==
    CASE name = "requireApiKey"   -> RequireApiKey(r)
      [] name = "validateProduct" -> ValidateProduct(r)

\* The middleware of a route run in the order of its registration: the first
\* next(err) skips the rest of the chain and the handler.
RECURSIVE RunChain(_, _)
RunChain(chain, r) ==
    IF chain = <<>> THEN NoError
    ELSE LET e == Middleware(Head(chain), r)
         IN  IF e.raised THEN e ELSE RunChain(Tail(chain), r)

----------------------------------------------------------------------------
(* Routing *)

Route(method, pattern, chain, handler) ==
    [method |-> method, pattern |-> pattern, chain |-> chain,
     handler |-> handler]

\* The routes in the order app.get/post/put/delete register them.
Routes == <<
    Route("GET",    "/",                   <<>>, "root"),
    Route("GET",    "/api/products",       <<>>, "list"),
    Route("GET",    "/api/products/:id",   <<>>, "getProduct"),
    Route("POST",   "/api/products",
          <<"requireApiKey", "validateProduct">>, "create"),
    Route("PUT",    "/api/products/:id",
          <<"requireApiKey", "validateProduct">>, "update"),
    Route("DELETE", "/api/products/:id",   <<"requireApiKey">>, "remove"),
    Route("GET",    "/api/products/stats", <<>>, "stats") >>

\* Does the path match the route's pattern?  A parameter :id matches any
\* single segment.
Matches(pattern, path) ==
    CASE pattern = "/"                   -> path.kind = "root"
      [] pattern = "/api/products"       -> path.kind = "collection"
      [] pattern = "/api/products/:id"   -> path.kind = "item"
      [] pattern = "/api/products/stats" ->
             path.kind = "item" /\ path.seg = "stats"

\* Express hands the request to the first registered route whose method and
\* pattern match; a handler that responds, or calls next(err), ends the
\* search.  0 when no route matches.
Dispatch(method, path) ==
    LET hits == {i \in DOMAIN Routes :
                    /\ Routes[i].method = method
                    /\ Matches(Routes[i].pattern, path)}
    IN  IF hits = {} THEN 0 ELSE CHOOSE i \in hits : \A j \in hits : i <= j

HandlerOf(r) ==
    IF Dispatch(r.method, r.path) = 0 THEN "none"
    ELSE Routes[Dispatch(r.method, r.path)].handler

ChainOf(r) == Routes[Dispatch(r.method, r.path)].chain

----------------------------------------------------------------------------
(* Global error handler *)

ErrorHandler(e) ==
    [NoResponse EXCEPT
        !.kind    = "error",
        !.code    = IF e.statusCode # 0 THEN e.statusCode ELSE 500,
        !.status  = IF e.isOperational THEN "fail" ELSE "error",
        !.message = IF e.message # "" THEN e.message
                    ELSE "Internal Server Error"]

----------------------------------------------------------------------------
(* Handlers *)

\* const { description = '' } = req.body: the default replaces undefined only
DescriptionOf(body) ==
    IF body.description.t = "undefined" THEN Str("") ELSE body.description

\* POST: { id: uuidv4(), name, description, price, category, inStock }
NewProduct(body) ==
    Product(Uuidv4, body.name, DescriptionOf(body), body.price, body.category,
            body.inStock)

\* Mutant of UpdatedProduct: a field the body omits keeps its old value
UpdatedProductMerged(old, body) ==
    [old EXCEPT !.name = body.name,
                !.description = IF body.description.t = "undefined"
                                THEN old.description ELSE body.description,
                !.price = body.price, !.category = body.category,
                !.inStock = body.inStock]

\* PUT: { ...products[idx], name, description, price, category, inStock }
UpdatedProduct(old, body) ==
    [old EXCEPT !.name = body.name, !.description = DescriptionOf(body),
                !.price = body.price, !.category = body.category,
                !.inStock = body.inStock]

\* Mutant of Splice: products.splice(idx), which removes up to the end
SpliceToEnd(seq, idx) == SubSeq(seq, 1, idx)

\* DELETE: what products.splice(idx, 1) leaves in the array
Splice(seq, idx) == SubSeq(seq, 1, idx) \o SubSeq(seq, idx + 2, Len(seq))

\* GET /api/products: the category filter
CategoryFilter(seq, category) ==
    IF Truthy(category)
    THEN LET cat     == ToLowerCase(Chars(category.s))
             Keep(p) == ToLowerCase(Chars(p.category.s)) = cat
         IN  SelectSeq(seq, Keep)
    ELSE seq

\* p.name.toLowerCase().includes(term)
NameMatches(p, term) == Includes(ToLowerCase(Chars(p.name.s)), term)

\* (p.description || '').toLowerCase() throws a TypeError when the
\* description is truthy and not a string; || evaluates it only when the
\* name does not match.
TextFilterThrows(seq, q) ==
    /\ Truthy(q)
    /\ \E i \in DOMAIN seq :
          /\ ~NameMatches(seq[i], ToLowerCase(Chars(q.s)))
          /\ Truthy(seq[i].description)
          /\ Typeof(seq[i].description) # "string"

\* GET /api/products: the text filter (when it does not throw)
TextFilter(seq, q) ==
    IF Truthy(q)
    THEN LET term    == ToLowerCase(Chars(q.s))
             Keep(p) ==
                 \/ NameMatches(p, term)
                 \/ Includes(ToLowerCase(Chars(IF Truthy(p.description)
                                               THEN p.description.s
                                               ELSE "")), term)
         IN  SelectSeq(seq, Keep)
    ELSE seq

\* parseInt(v, 10) || d
ParseIntOr(v, d) == IF Truthy(ParseInt(v)) THEN ParseInt(v).n ELSE d

\* const { page = 1 } = req.query; Math.max(1, parseInt(page, 10) || 1)
PageOf(query) ==
    MathMax(1, ParseIntOr(IF query.page.t = "undefined" THEN Num(1)
                          ELSE query.page, 1))

\* const { limit = 10 } = req.query; Math.max(1, parseInt(limit, 10) || 10)
LimitOf(query) ==
    MathMax(1, ParseIntOr(IF query.limit.t = "undefined" THEN Num(10)
                          ELSE query.limit, 10))

\* GET /api/products: the response when no filter throws
ListResponse(seq, query) ==
    LET results == TextFilter(CategoryFilter(seq, query.category), query.q)
        p       == PageOf(query)
        l       == LimitOf(query)
        start   == (p - 1) * l
        paged   == Slice(results, start, start + l)
    IN  [NoResponse EXCEPT !.code = 200, !.kind = "list",
                           !.status = "success", !.results = Len(paged),
                           !.page = p, !.total = Len(results),
                           !.products = paged]

\* GET /api/products: the error the handler's promise rejects with, if any
ListError(seq, query) ==
    IF TextFilterThrows(CategoryFilter(seq, query.category), query.q)
    THEN TypeError("(p.description || \"\").toLowerCase is not a function")
    ELSE NoError

\* products.reduce((acc, p) => { acc[p.category] = (acc[p.category] || 0) + 1;
\*                               return acc; }, acc)
RECURSIVE CountByCategory(_, _)
CountByCategory(seq, acc) ==
    IF seq = <<>> THEN acc
    ELSE LET c == Head(seq).category.s
         IN  CountByCategory(Tail(seq),
                 IF c \in DOMAIN acc THEN [acc EXCEPT ![c] = @ + 1]
                 ELSE acc @@ (c :> 1))

\* GET /api/products/stats
StatsResponse(seq) ==
    [NoResponse EXCEPT !.code = 200, !.kind = "stats", !.status = "success",
                       !.counts = CountByCategory(seq, <<>>),
                       !.total = Len(seq)]

\* GET /api/products/:id
GetProductError(seq, id) ==
    IF FindIndex(seq, id) = -1 THEN NotFoundError("Product not found")
    ELSE NoError

----------------------------------------------------------------------------
(* Inputs *)

\* x-api-key: absent, the secret, another value
Keys == {Undefined, Str(SecretKey), Str("wrong")}

Body(name, description, price, category, inStock) ==
    [name |-> name, description |-> description, price |-> price,
     category |-> category, inStock |-> inStock]

\* {"name":"Mug","price":15,"category":"Kitchen","inStock":true}
BodyMug == Body(Str("Mug"), Undefined, Num(15), Str("Kitchen"), Bool(TRUE))

\* {"name":"Cup","description":"Coffee cup","price":7,"category":"Cups",
\*  "inStock":false}
BodyCup == Body(Str("Cup"), Str("Coffee cup"), Num(7), Str("Cups"),
                Bool(FALSE))

\* {"name":"Jar","description":5,"price":1,"category":"Kitchen",
\*  "inStock":true}
BodyJar == Body(Str("Jar"), Num(5), Num(1), Str("Kitchen"), Bool(TRUE))

\* {"name":"Mug","price":"abc","category":"Kitchen","inStock":true}
BodyBadPrice == [BodyMug EXCEPT !.price = Str("abc")]

Bodies == {BodyMug, BodyCup, BodyBadPrice, EmptyBody}

\* Bodies for the validation gate: every combination of these field values
\* (JSON.parse reads 1e999 as Infinity; no JSON text gives NaN)
AllBodies ==
    {Body(n, d, p, c, s) :
        n \in {Str("Mug"), Str(" "), Undefined},
        d \in {Undefined, Num(5), Str("Coffee cup")},
        p \in {Num(15), Infinity, Str("abc")},
        c \in {Str("Kitchen"), Str("")},
        s \in {Bool(TRUE), Undefined}}

\* The :id segments requested: the first and the last seeded id, the
\* generated ids, and one segment that is never an id
ParamIds ==
    {"1", "3", "stats"} \cup {UuidPool[i] : i \in 1..MaxCreated}

Query(category, q, page, limit) ==
    [category |-> category, q |-> q, page |-> page, limit |-> limit]

Queries ==
    {EmptyQuery,
     Query(Undefined, Str("coffee"), Undefined, Undefined),
     Query(Str("ELECTRONICS"), Undefined, Str("2"), Str("1"))}

AllQueries ==
    {Query(c, q, p, l) :
        c \in {Undefined, Str("ELECTRONICS"), Str("kitchen")},
        q \in {Undefined, Str("coffee"), Str("MUG")},
        p \in {Undefined, Str("0"), Str("1"), Str("2"), Str("-1"), Str("abc")},
        l \in {Undefined, Str("0"), Str("1"), Str("2"), Str("-2")}}

\* The requests clients send, built from the inputs above
RequestsOf(keys, bodies, ids, queries) ==
    {Request("GET", RootPath, Undefined, EmptyBody, EmptyQuery)}
    \cup {Request("GET", CollectionPath, Undefined, EmptyBody, query) :
             query \in queries}
    \cup {Request("GET", ItemPath(id), Undefined, EmptyBody, EmptyQuery) :
             id \in ids}
    \cup {Request("POST", CollectionPath, key, body, EmptyQuery) :
             key \in keys, body \in bodies}
    \cup {Request("PUT", ItemPath(id), key, body, EmptyQuery) :
             key \in keys, body \in bodies, id \in ids}
    \cup {Request("DELETE", ItemPath(id), key, EmptyBody, EmptyQuery) :
             key \in keys, id \in ids}

Requests == RequestsOf(Keys, Bodies, ParamIds, Queries)

----------------------------------------------------------------------------
(* The state machine *)

NoBefore == [products |-> <<>>, everIds |-> {}]

Init ==
    /\ products = SeedProducts
    /\ issued = 0
    /\ pc = "idle"
    /\ req = NoRequest
    /\ err = NoError
    /\ resp = NoResponse
    /\ everIds = Ids(SeedProducts)
    /\ deleted = {}
    /\ created = {}
    /\ before = NoBefore

\* A request arrives and body-parser parses its body.  (A POST is received
\* only while the run may still create a product.)
Receive(requests) ==
    \E r \in requests :
        /\ pc = "idle"
        /\ r.method = "POST" => issued < MaxCreated
        /\ pc' = "received"
        /\ req' = r
        /\ UNCHANGED <<products, issued, err, resp, everIds, deleted, created,
                       before>>

\* The request ends with one response: the handler's, or the error handler's
\* when next(err) was called.
Respond(e, ok) ==
    /\ pc' = "responded"
    /\ err' = e
    /\ resp' = IF e.raised THEN ErrorHandler(e) ELSE ok
    /\ before' = [products |-> products, everIds |-> everIds]
    /\ UNCHANGED req

Unchanged == UNCHANGED <<products, issued, everIds, deleted, created>>

\* GET /
GetRoot ==
    /\ pc = "received"
    /\ HandlerOf(req) = "root"
    /\ Respond(NoError,
           [NoResponse EXCEPT !.code = 200, !.kind = "text",
                !.message = "Hello World - Product API. Use /api/products"])
    /\ Unchanged

\* GET /api/products
ListProducts ==
    /\ pc = "received"
    /\ HandlerOf(req) = "list"
    /\ Respond(ListError(products, req.query),
               ListResponse(products, req.query))
    /\ Unchanged

\* GET /api/products/<segment>: handled by the route Dispatch finds first,
\* GET /api/products/:id or GET /api/products/stats
GetItem ==
    /\ pc = "received"
    /\ HandlerOf(req) \in {"getProduct", "stats"}
    /\ IF HandlerOf(req) = "stats"
       THEN Respond(NoError, StatsResponse(products))
       ELSE Respond(GetProductError(products, req.path.seg),
                    ProductResponse(200,
                        products[FindIndex(products, req.path.seg) + 1]))
    /\ Unchanged

\* POST /api/products
PostProduct ==
    LET e == RunChain(ChainOf(req), req)
    IN  /\ pc = "received"
        /\ HandlerOf(req) = "create"
        /\ IF e.raised
           THEN Respond(e, NoResponse) /\ Unchanged
           ELSE LET newProduct == NewProduct(req.body)
                IN  /\ products' = Append(products, newProduct)
                    /\ issued' = issued + 1
                    /\ everIds' = everIds \cup {newProduct.id}
                    /\ created' = created \cup {newProduct}
                    /\ UNCHANGED deleted
                    /\ Respond(NoError, ProductResponse(201, newProduct))

\* PUT /api/products/:id
PutProduct ==
    LET e1  == RunChain(ChainOf(req), req)
        id  == req.path.seg
        idx == FindIndex(products, id)
        e   == IF e1.raised THEN e1
               ELSE IF idx = -1 THEN NotFoundError("Product not found")
               ELSE NoError
    IN  /\ pc = "received"
        /\ HandlerOf(req) = "update"
        /\ IF e.raised
           THEN Respond(e, NoResponse) /\ Unchanged
           ELSE /\ products' = [products EXCEPT
                                  ![idx + 1] = UpdatedProduct(@, req.body)]
                /\ created' = {p \in created : p.id # id}
                /\ UNCHANGED <<issued, everIds, deleted>>
                /\ Respond(NoError, ProductResponse(200, products'[idx + 1]))

\* DELETE /api/products/:id
DeleteProduct ==
    LET e1  == RunChain(ChainOf(req), req)
        id  == req.path.seg
        idx == FindIndex(products, id)
        e   == IF e1.raised THEN e1
               ELSE IF idx = -1 THEN NotFoundError("Product not found")
               ELSE NoError
    IN  /\ pc = "received"
        /\ HandlerOf(req) = "remove"
        /\ IF e.raised
           THEN Respond(e, NoResponse) /\ Unchanged
           ELSE /\ products' = Splice(products, idx)
                /\ deleted' = deleted \cup {id}
                /\ created' = {p \in created : p.id # id}
                /\ UNCHANGED <<issued, everIds>>
                /\ Respond(NoError, ProductResponse(200, products[idx + 1]))

\* The response is flushed and the request is over.
Finish ==
    /\ pc = "responded"
    /\ pc' = "idle"
    /\ req' = NoRequest
    /\ err' = NoError
    /\ resp' = NoResponse
    /\ before' = NoBefore
    /\ Unchanged

Handle ==
    \/ GetRoot
    \/ ListProducts
    \/ GetItem
    \/ PostProduct
    \/ PutProduct
    \/ DeleteProduct

Next == Receive(Requests) \/ Handle \/ Finish

Spec == Init /\ [][Next]_vars

----------------------------------------------------------------------------
(* The list handler on every query: products are created and deleted, and  *)
(* GET /api/products is sent with every query of AllQueries.               *)

ListRequests ==
    {r \in RequestsOf({Undefined, Str(SecretKey)},
                      {BodyMug, BodyCup, BodyJar, EmptyBody},
                      {"1", "3", "stats"}, AllQueries) : r.method # "PUT"}

NextList ==
    \/ Receive(ListRequests)
    \/ GetRoot
    \/ ListProducts
    \/ GetItem
    \/ PostProduct
    \/ DeleteProduct
    \/ Finish

SpecList == Init /\ [][NextList]_vars

----------------------------------------------------------------------------
(* The validation gate on every body: authenticated POST and PUT requests  *)
(* are sent with every body of AllBodies.                                  *)

ValidateRequests ==
    {r \in RequestsOf({Str(SecretKey)}, AllBodies, {"1", "stats"}, {}) :
        r.method \in {"POST", "PUT"}}

NextValidate ==
    \/ Receive(ValidateRequests)
    \/ PostProduct
    \/ PutProduct
    \/ Finish

SpecValidate == Init /\ [][NextValidate]_vars

----------------------------------------------------------------------------
(* Properties *)

Responded == pc = "responded"

IsList    == req.method = "GET" /\ req.path.kind = "collection"
IsGetItem == req.method = "GET" /\ req.path.kind = "item"

\* The position of the record with this id
PositionOf(seq, id) == CHOOSE i \in DOMAIN seq : seq[i].id = id

\* A string with a character that is not white space
NonBlankString(v) ==
    v.t = "string" /\ \E i \in DOMAIN Chars(v.s) : Chars(v.s)[i] \notin WhiteSpace

\* The fields of a body that violate the rules of the validation gate as the
\* specification states them, each with its entry of the message
Violations(body) ==
    (IF NonBlankString(body.name) THEN <<>>
     ELSE <<"name (string) is required">>)
    \o (IF body.price.t = "number" THEN <<>>
        ELSE <<"price (number) is required">>)
    \o (IF NonBlankString(body.category) THEN <<>>
        ELSE <<"category (string) is required">>)
    \o (IF body.inStock.t = "boolean" THEN <<>>
        ELSE <<"inStock (boolean) is required">>)

\* The record a body describes, under the given id
RecordOf(id, body) ==
    Product(id, body.name,
            IF body.description = Undefined THEN Str("") ELSE body.description,
            body.price, body.category, body.inStock)

\* The records the filters of a query select, in the order of the collection
Matching(seq, query) ==
    LET Lower(v) == ToLowerCase(Chars(v.s))
        Match(p) ==
            /\ query.category = Undefined
                  \/ Lower(p.category) = Lower(query.category)
            /\ \/ query.q = Undefined
               \/ Includes(Lower(p.name), Lower(query.q))
               \/ /\ p.description.t = "string"
                  /\ Includes(Lower(p.description), Lower(query.q))
    IN  SelectSeq(seq, Match)

\* The integers the page and limit parameters of the queries spell
IntOf == ("0" :> 0) @@ ("1" :> 1) @@ ("2" :> 2) @@ ("-1" :> -1)
         @@ ("-2" :> -2)

IsIntOrAbsent(v) == v = Undefined \/ (v.t = "string" /\ v.s \in DOMAIN IntOf)

\* The parameter floored at 1, or the default when it is absent
Effective(v, default) ==
    IF v = Undefined THEN default
    ELSE IF IntOf[v.s] < 1 THEN 1 ELSE IntOf[v.s]

\* C1: a POST, PUT or DELETE whose x-api-key is absent or is not the secret
\* is answered 401 with status "fail", whatever its body and id, and leaves
\* the collection as it was.
C1_UnauthorizedWriteRejected ==
    (/\ Responded
     /\ req.method \in {"POST", "PUT", "DELETE"}
     /\ req.key # Str("secret-key"))
    => /\ resp.code = 401
       /\ resp.status = "fail"
       /\ products = before.products

\* A PUT of a valid body on an existing id with a wrong key was refused.
C1_Witness ==
    /\ Responded
    /\ req.method = "PUT"
    /\ req.key = Str("wrong")
    /\ req.body = BodyMug
    /\ req.path.seg \in Ids(products)
    /\ resp.code = 401

\* C2: no two records of the collection have the same id, and the id of a
\* created record is none of the ids that were ever in the collection.
C2_IdsUnique ==
    /\ \A i, j \in DOMAIN products :
          products[i].id = products[j].id => i = j
    /\ (Responded /\ req.method = "POST" /\ resp.code = 201)
          => resp.products[1].id \notin before.everIds

\* A second product was created after the first created one was deleted.
C2_Witness ==
    /\ Responded
    /\ req.method = "POST"
    /\ resp.code = 201
    /\ issued = 2
    /\ UuidPool[1] \in deleted

\* C5: an authenticated PUT with a valid body is answered 404 and changes
\* nothing when no record has the id; otherwise the record keeps its id and
\* position, its other fields are the submitted ones (description "" when
\* omitted), and every other record is unchanged.
C5_PutReplaces ==
    (/\ Responded
     /\ req.method = "PUT"
     /\ req.key = Str("secret-key")
     /\ Violations(req.body) = <<>>)
    => LET id  == req.path.seg
           old == before.products
       IN  IF id \notin Ids(old)
           THEN resp.code = 404 /\ products = old
           ELSE /\ resp.code = 200
                /\ Len(products) = Len(old)
                /\ products[PositionOf(old, id)] = RecordOf(id, req.body)
                /\ \A j \in DOMAIN old :
                      j # PositionOf(old, id) => products[j] = old[j]

\* A body without description replaced a record that had one.
C5_Witness ==
    /\ Responded
    /\ req.method = "PUT"
    /\ req.body = BodyMug
    /\ resp.code = 200
    /\ req.path.seg \in Ids(before.products)
    /\ before.products[PositionOf(before.products, req.path.seg)].description
          # Str("")
    /\ Len(products) > 1

\* C6: an authenticated DELETE of an existing id removes that record alone
\* and returns it; of an unknown id it is answered 404 and removes nothing.
\* A deleted id is in no later state of the collection: GET by that id is
\* answered 404 and no listing contains it.
C6_DeleteRemovesOne ==
    /\ (Responded /\ req.method = "DELETE" /\ req.key = Str("secret-key"))
       => LET id  == req.path.seg
              old == before.products
          IN  IF id \notin Ids(old)
              THEN resp.code = 404 /\ products = old
              ELSE LET i == PositionOf(old, id)
                   IN  /\ resp.code = 200
                       /\ resp.products = <<old[i]>>
                       /\ Len(products) = Len(old) - 1
                       /\ \A j \in DOMAIN products :
                             products[j] = IF j < i THEN old[j] ELSE old[j + 1]
    /\ \A id \in deleted :
          /\ id \notin Ids(products)
          /\ (Responded /\ IsGetItem /\ req.path.seg = id) => resp.code = 404
          /\ (Responded /\ IsList) => id \notin Ids(resp.products)

\* GET by a deleted id was answered 404.
C6_Witness ==
    /\ Responded
    /\ IsGetItem
    /\ req.path.seg \in deleted
    /\ resp.code = 404

\* C10: GET /api/products/:id is answered 404 exactly when no record has the
\* id and otherwise returns the record stored under it; for an id a create
\* returned, with no PUT or DELETE of it since, that is the created record.
C10_GetById ==
    (Responded /\ IsGetItem)
    => LET id == req.path.seg
       IN  /\ resp.code = 404 <=> id \notin Ids(products)
           /\ id \in Ids(products)
                 => /\ resp.code = 200
                    /\ resp.products = <<products[PositionOf(products, id)]>>
           /\ \A c \in created : c.id = id => resp.products = <<c>>

\* GET by the id of a created record returned a record.
C10_Witness ==
    /\ Responded
    /\ IsGetItem
    /\ \E c \in created : c.id = req.path.seg
    /\ resp.code = 200

\* C3: the validation gate lets an authenticated create or update through
\* exactly when name is a non-empty string, price a finite number, category
\* a non-empty string and inStock a boolean; otherwise the answer is 400, its
\* message lists every violated field joined by "; ", and the handler does
\* not run.
C3_ValidationGate ==
    (/\ Responded
     /\ req.method \in {"POST", "PUT"}
     /\ req.key = Str("secret-key"))
    => IF Violations(req.body) = <<>>
       THEN resp.code \in {200, 201, 404}
       ELSE /\ resp.code = 400
            /\ resp.message = Join(Violations(req.body), "; ")
            /\ products = before.products

\* C4: GET /api/products/stats is answered with status "success", the number
\* of records of each category present and the total number of records; it
\* is not looked up as the id "stats".
C4_StatsAnswered ==
    (Responded /\ req.method = "GET" /\ req.path = ItemPath("stats"))
    => /\ resp.code = 200
       /\ resp.status = "success"
       /\ resp.kind = "stats"
       /\ resp.total = Len(products)
       /\ DOMAIN resp.counts =
             {products[i].category.s : i \in DOMAIN products}
       /\ \A c \in DOMAIN resp.counts :
             resp.counts[c] =
                 Cardinality({i \in DOMAIN products :
                                 products[i].category.s = c})

\* C7: GET /api/products selects, in insertion order, exactly the records
\* whose category equals the category parameter ignoring case and whose name
\* or description contains q ignoring case; total is the number of those
\* records, whatever page and limit are.
C7_FiltersSelect ==
    (Responded /\ IsList)
    => LET m == Matching(products, req.query)
       IN  /\ resp.code = 200
           /\ resp.total = Len(m)
           /\ \E k \in 0..(Len(m) - Len(resp.products)) :
                 resp.products = SubSeq(m, k + 1, k + Len(resp.products))

\* C8: for integer page and limit (0 and negative included) the effective
\* page is the page floored at 1 (1 when absent), the effective limit the
\* limit floored at 1 (10 when absent); the response holds the selected
\* records at offsets (page-1)*limit up to page*limit, counts them in
\* results, and echoes the effective page.
C8_Pagination ==
    (/\ Responded
     /\ IsList
     /\ resp.code = 200
     /\ IsIntOrAbsent(req.query.page)
     /\ IsIntOrAbsent(req.query.limit))
    => LET m     == Matching(products, req.query)
           page  == Effective(req.query.page, 1)
           limit == Effective(req.query.limit, 10)
           from  == (page - 1) * limit
           upto  == IF page * limit <= Len(m) THEN page * limit ELSE Len(m)
       IN  /\ resp.page = page
           /\ resp.results = Len(resp.products)
           /\ resp.results <= limit
           /\ resp.products = [i \in 1..(IF upto > from THEN upto - from ELSE 0)
                                  |-> m[from + i]]

\* C9: the response to an error has the error's status code (500 when it has
\* none); an operational error gives status "fail" and its own message, any
\* other error status "error" and a generic message.
C9_ErrorResponse ==
    (Responded /\ err.raised)
    => /\ resp.code = IF err.statusCode # 0 THEN err.statusCode ELSE 500
       /\ IF err.isOperational
          THEN resp.status = "fail" /\ resp.message = err.message
          ELSE resp.status = "error"
               /\ resp.message = "Internal Server Error"

====
